---- MODULE Spec2Model ----
(***************************************************************************)
(* Model of basket_promo_engine/api/promo.py: the basket promotion hook    *)
(* apply_promotions and its helpers.                                       *)
(*                                                                         *)
(* Strings that the code trims (item codes, customer group, company) are   *)
(* sequences of one-character strings, so that str.strip() is computed.    *)
(* A description is a sequence of tokens, so that startswith("FREE ITEM")  *)
(* and the substring test for the tag are computed.  Quantities are        *)
(* naturals (flt() of a stored number).  An absent (None) string field is  *)
(* the empty sequence: every use in the code is `x or ""` or a truth test, *)
(* which do not tell None from "".  An absent row or rule is None.         *)
(***************************************************************************)
EXTENDS Integers, Sequences, FiniteSets, TLC

VARIABLES doc, rules, calls, pre, result,
          basket_qty, slabs, free_qty,
          chosen,
          eligible_items, aggregate

vars == <<doc, rules, calls, pre, result, basket_qty, slabs, free_qty,
          chosen, eligible_items, aggregate>>

None == [none |-> TRUE]

\* ------------------------------------------------------------------ bounds
MaxLines == 3
MaxRules == 2
MaxSlabs == 2
MaxQty == 3

\* --------------------------------------------------------- generic helpers
SeqsUpTo(S, n) == UNION {[1..k -> S] : k \in 0..n}

\* Tuples of integers compared as Python compares tuples
RECURSIVE TupleLess(_, _)
TupleLess(a, b) ==
    IF a = <<>> THEN b # <<>>
    ELSE IF b = <<>> THEN FALSE
    ELSE IF Head(a) # Head(b) THEN Head(a) < Head(b)
    ELSE TupleLess(Tail(a), Tail(b))

\* Insert the keyed element x into the sorted sequence s, after every element
\* whose key is not greater (list.sort is stable; so is ORDER BY over rows that
\* are scanned in a fixed order).
RECURSIVE InsertSorted(_, _)
InsertSorted(x, s) ==
    IF s = <<>> THEN <<x>>
    ELSE IF TupleLess(x.key, Head(s).key) THEN <<x>> \o s
    ELSE <<Head(s)>> \o InsertSorted(x, Tail(s))

\* s is a sequence of [key |-> tuple of integers, val |-> element]
RECURSIVE StableSort(_)
StableSort(s) ==
    IF s = <<>> THEN <<>>
    ELSE InsertSorted(s[Len(s)], StableSort(SubSeq(s, 1, Len(s) - 1)))

Vals(s) == [i \in 1..Len(s) |-> s[i].val]

\* str.strip() on a sequence of characters
RECURSIVE LStrip(_)
LStrip(s) == IF s # <<>> /\ Head(s) = " " THEN LStrip(Tail(s)) ELSE s

RECURSIVE RStrip(_)
RStrip(s) == IF s # <<>> /\ s[Len(s)] = " " THEN RStrip(SubSeq(s, 1, Len(s) - 1)) ELSE s

Strip(s) == RStrip(LStrip(s))

\* ------------------------------------------------------------ promo marker
PROMO_TAG == "BASKET_PROMO"

FreeItemDescription == <<"FREE ITEM", "(", PROMO_TAG, ")">>

_is_promo_row(row) ==
    LET d == row.description
    IN  /\ d # <<>>
        /\ d[1] = "FREE ITEM"
        /\ \E i \in 1..Len(d) : d[i] = PROMO_TAG


\* ------------------------------------------------ customer group hierarchy
\* The Customer Group table as a nested set: R(1,8) > P(2,5) > C(3,4), O(6,7).
CustomerGroupTable ==
    << [name |-> <<"R">>, lft |-> 1, rgt |-> 8],
       [name |-> <<"P">>, lft |-> 2, rgt |-> 5],
       [name |-> <<"C">>, lft |-> 3, rgt |-> 4],
       [name |-> <<"O">>, lft |-> 6, rgt |-> 7] >>

_get_customer_group_ancestors_including_self(customer_group) ==
    LET hits == SelectSeq(CustomerGroupTable, LAMBDA g : g.name = customer_group)
    IN  IF hits = <<>> THEN <<customer_group>>
        ELSE LET row == hits[1]
                 anc == SelectSeq(CustomerGroupTable,
                                  LAMBDA g : g.lft <= row.lft /\ g.rgt >= row.rgt)
                 ordered == Vals(StableSort([i \in 1..Len(anc) |->
                                [key |-> <<0 - anc[i].lft>>, val |-> anc[i].name]]))
             IN  IF ordered = <<>> THEN <<customer_group>> ELSE ordered

\* list.index, with the except branch of specificity_index
IndexIn(path, x) ==
    IF \E i \in 1..Len(path) : path[i] = x
    THEN (CHOOSE i \in 1..Len(path) : path[i] = x /\ \A j \in 1..(i - 1) : path[j] # x) - 1
    ELSE 999

\* ------------------------------------------------------------- rule lookup
\* frappe.get_all("Basket Promo Rule", enabled = 1, customer_group in cg_path,
\* order_by = "priority desc, modified desc"); the table rs is held most
\* recently modified first.
RuleQuery(rs, cg_path) ==
    LET hit == SelectSeq(rs, LAMBDA r :
                   r.enabled /\ \E i \in 1..Len(cg_path) : cg_path[i] = r.customer_group)
    IN  Vals(StableSort([i \in 1..Len(hit) |->
                [key |-> <<0 - hit[i].priority>>, val |-> hit[i]]]))

\* company_matched + company_blank
CompanyCandidates(rows, company) ==
    SelectSeq(rows, LAMBDA r : r.company # <<>> /\ company # <<>> /\ r.company = company)
    \o SelectSeq(rows, LAMBDA r : r.company = <<>>)

\* SortCandidates with the two sort keys exchanged
SortCandidatesSpecificityFirst(candidates, cg_path) ==
    Vals(StableSort([i \in 1..Len(candidates) |->
        [key |-> <<IndexIn(cg_path, candidates[i].customer_group), 0 - candidates[i].priority>>,
         val |-> candidates[i]]]))

\* candidates.sort(key=lambda r: (-(r.priority or 0), specificity_index(r)))
SortCandidates(candidates, cg_path) ==
    Vals(StableSort([i \in 1..Len(candidates) |->
        [key |-> <<0 - candidates[i].priority, IndexIn(cg_path, candidates[i].customer_group)>>,
         val |-> candidates[i]]]))

\* the row `chosen` of _get_matching_rule, or None
ChosenRule(d, rs) ==
    LET customer_group == Strip(d.customer_group)
        company == Strip(d.company)
        cg_path == _get_customer_group_ancestors_including_self(customer_group)
        rows == RuleQuery(rs, cg_path)
        candidates == CompanyCandidates(rows, company)
    IN  IF customer_group = <<>> THEN None
        ELSE IF cg_path = <<>> THEN None
        ELSE IF rows = <<>> THEN None
        ELSE IF candidates = <<>> THEN None
        ELSE SortCandidates(candidates, cg_path)[1]

\* frappe.get_all("Basket Promo Slab", ..., order_by = "min_qty asc")
SlabQuery(rows) ==
    Vals(StableSort([i \in 1..Len(rows) |-> [key |-> <<rows[i].min_qty>>, val |-> rows[i]]]))

_get_matching_rule(d, rs) ==
    LET c == ChosenRule(d, rs)
    IN  IF c = None THEN None
        ELSE [name |-> c.name,
              company |-> c.company,
              priority |-> c.priority,
              free_item_policy |-> IF c.free_item_policy = "" THEN "highest_qty"
                                   ELSE c.free_item_policy,
              fixed_free_item_code |-> c.fixed_free_item_code,
              eligible_items |-> c.eligible_items,
              slabs |-> SlabQuery(c.slabs)]

\* ------------------------------------------------------------ basket compute
\* flt(stock_qty) or flt(qty)
CountedQty(row) == IF row.stock_qty # 0 THEN row.stock_qty ELSE row.qty

\* A dict is a sequence of [k, v] in insertion order.
HasKey(m, k) == \E i \in 1..Len(m) : m[i].k = k

Get(m, k) == m[CHOOSE i \in 1..Len(m) : m[i].k = k].v

Put(m, k, v) ==
    IF HasKey(m, k) THEN [i \in 1..Len(m) |-> IF m[i].k = k THEN [k |-> k, v |-> v] ELSE m[i]]
    ELSE Append(m, [k |-> k, v |-> v])

EmptyAggregate == [basket_qty |-> 0, item_qty_map |-> <<>>, best_row_by_item |-> <<>>]

\* BasketStep without the test that skips promotional rows
BasketStepCountingPromo(acc, row, eligible) ==
    LET item_code == Strip(row.item_code)
        qty == CountedQty(row)
    IN  IF item_code \notin eligible THEN acc
        ELSE IF qty <= 0 THEN acc
        ELSE [basket_qty |-> acc.basket_qty + qty,
              item_qty_map |-> Put(acc.item_qty_map, item_code,
                                   (IF HasKey(acc.item_qty_map, item_code)
                                    THEN Get(acc.item_qty_map, item_code) ELSE 0) + qty),
              best_row_by_item |->
                  IF \/ ~HasKey(acc.best_row_by_item, item_code)
                     \/ qty > Get(acc.best_row_by_item, item_code).qty
                  THEN Put(acc.best_row_by_item, item_code, row)
                  ELSE acc.best_row_by_item]

\* one iteration of the loop of _compute_basket_qty
BasketStep(acc, row, eligible) ==
    LET item_code == Strip(row.item_code)
        qty == CountedQty(row)
    IN  IF _is_promo_row(row) THEN acc
        ELSE IF item_code \notin eligible THEN acc
        ELSE IF qty <= 0 THEN acc
        ELSE [basket_qty |-> acc.basket_qty + qty,
              item_qty_map |-> Put(acc.item_qty_map, item_code,
                                   (IF HasKey(acc.item_qty_map, item_code)
                                    THEN Get(acc.item_qty_map, item_code) ELSE 0) + qty),
              best_row_by_item |->
                  IF \/ ~HasKey(acc.best_row_by_item, item_code)
                     \/ qty > Get(acc.best_row_by_item, item_code).qty
                  THEN Put(acc.best_row_by_item, item_code, row)
                  ELSE acc.best_row_by_item]

RECURSIVE BasketLoop(_, _, _)
BasketLoop(items, n, eligible) ==
    IF n = 0 THEN EmptyAggregate
    ELSE BasketStep(BasketLoop(items, n - 1, eligible), items[n], eligible)

_compute_basket_qty(items, eligible) == BasketLoop(items, Len(items), eligible)

\* ----------------------------------------------------------- slab evaluator
RECURSIVE _get_free_qty_for_slab(_, _)
_get_free_qty_for_slab(q, ss) ==
    IF ss = <<>> THEN 0
    ELSE IF Head(ss).min_qty <= q /\ q < Head(ss).max_qty THEN Head(ss).free_qty
    ELSE _get_free_qty_for_slab(q, Tail(ss))

\* ------------------------------------------------------ free item selection
\* MaxKey keeping the last of the keys with the largest value
MaxKeyLast(m) ==
    LET i == CHOOSE i \in 1..Len(m) :
                 /\ \A j \in 1..Len(m) : m[j].v <= m[i].v
                 /\ \A j \in (i + 1)..Len(m) : m[j].v < m[i].v
    IN  m[i].k

\* max(item_qty_map, key=item_qty_map.get): the first key with the largest value
MaxKey(m) ==
    LET i == CHOOSE i \in 1..Len(m) :
                 /\ \A j \in 1..Len(m) : m[j].v <= m[i].v
                 /\ \A j \in 1..(i - 1) : m[j].v < m[i].v
    IN  m[i].k

\* None is the empty code: the caller only tests `not free_item_code`
_select_free_item(rule, item_qty_map) ==
    IF rule.free_item_policy = "fixed_item" THEN Strip(rule.fixed_free_item_code)
    ELSE IF item_qty_map = <<>> THEN <<>>
    ELSE MaxKey(item_qty_map)

\* ------------------------------------------------------------ apply/cleanup
\* frappe.db.get_value("Item", item_code, "item_name"): only item X is named
ItemName(item_code) == IF item_code = <<"X">> THEN <<"N", "X">> ELSE <<>>

\* _add_free_row putting the free row first instead of last
AddFreeRowFirst(d, source_row, item_code, qty) ==
    <<[item_code |-> item_code,
       item_name |-> IF ItemName(item_code) # <<>> THEN ItemName(item_code) ELSE item_code,
       delivery_date |-> IF source_row.delivery_date # "" THEN source_row.delivery_date
                         ELSE d.delivery_date,
       stock_qty |-> 0,
       qty |-> qty,
       rate |-> 0,
       price_list_rate |-> 0,
       amount |-> 0,
       warehouse |-> source_row.warehouse,
       uom |-> source_row.uom,
       conversion_factor |-> source_row.conversion_factor,
       description |-> FreeItemDescription]>> \o d.items

_add_free_row(d, source_row, item_code, qty) ==
    Append(d.items,
           [item_code |-> item_code,
            item_name |-> IF ItemName(item_code) # <<>> THEN ItemName(item_code) ELSE item_code,
            delivery_date |-> IF source_row.delivery_date # "" THEN source_row.delivery_date
                              ELSE d.delivery_date,
            stock_qty |-> 0,
            qty |-> qty,
            rate |-> 0,
            price_list_rate |-> 0,
            amount |-> 0,
            warehouse |-> source_row.warehouse,
            uom |-> source_row.uom,
            conversion_factor |-> source_row.conversion_factor,
            description |-> FreeItemDescription])

\* _remove_existing_promo_rows dropping only the first promotional row
RemoveFirstPromoRow(items) ==
    IF \E i \in 1..Len(items) : _is_promo_row(items[i])
    THEN LET i == CHOOSE i \in 1..Len(items) :
                      _is_promo_row(items[i]) /\ \A j \in 1..(i - 1) : ~_is_promo_row(items[j])
         IN  SubSeq(items, 1, i - 1) \o SubSeq(items, i + 1, Len(items))
    ELSE items

_remove_existing_promo_rows(items) == SelectSeq(items, LAMBDA r : ~_is_promo_row(r))

_find_any_eligible_row(items, eligible) ==
    LET hit == SelectSeq(items, LAMBDA r : ~_is_promo_row(r) /\ Strip(r.item_code) \in eligible)
    IN  IF hit = <<>> THEN None ELSE hit[1]

\* The result of one call: the document's rows afterwards, whether _recalc ran,
\* and the path taken.  The stages below are the successive statements of
\* apply_promotions, each handed the values computed before it.
Outcome(items, recalc, path) == [items |-> items, recalc |-> recalc, path |-> path]

\* lines 43-49, from source_row on
WithSourceRow(d, stripped, source_row, free_item_code, fq) ==
    IF source_row = None THEN Outcome(stripped, FALSE, "NoTemplate")
    ELSE Outcome(_add_free_row([d EXCEPT !.items = stripped], source_row, free_item_code, fq),
                 TRUE, "AddFreeLine")

\* lines 35-43, from free_item_code on
WithFreeItem(d, stripped, eligible, best_row_by_item, free_item_code, fq) ==
    IF free_item_code = <<>> THEN Outcome(stripped, FALSE, "NoItem")
    ELSE WithSourceRow(d, stripped,
                       IF HasKey(best_row_by_item, free_item_code)
                       THEN Get(best_row_by_item, free_item_code)
                       ELSE _find_any_eligible_row(stripped, eligible),
                       free_item_code, fq)

\* WithFreeQty returning without _remove_existing_promo_rows when the slab gives nothing
WithFreeQtyKeepingStale(d, stripped, rule, agg, fq) ==
    IF fq <= 0 THEN Outcome(d.items, FALSE, "NoSlab")
    ELSE WithFreeItem(d, stripped, rule.eligible_items, agg.best_row_by_item,
                      _select_free_item(rule, agg.item_qty_map), fq)

\* lines 30-35, from free_qty on
WithFreeQty(d, stripped, rule, agg, fq) ==
    IF fq <= 0 THEN Outcome(stripped, FALSE, "NoSlab")
    ELSE WithFreeItem(d, stripped, rule.eligible_items, agg.best_row_by_item,
                      _select_free_item(rule, agg.item_qty_map), fq)

\* lines 28-30, from the aggregate on
WithBasket(d, stripped, rule, agg) ==
    WithFreeQty(d, stripped, rule, agg, _get_free_qty_for_slab(agg.basket_qty, rule.slabs))

\* WithRule calling _recalc after the strip when no rule matches
WithRuleRecalcOnStrip(d, stripped, rule) ==
    IF rule = None THEN Outcome(stripped, TRUE, "NoRule")
    ELSE WithBasket(d, stripped, rule, _compute_basket_qty(d.items, rule.eligible_items))

\* lines 20-28, from rule on
WithRule(d, stripped, rule) ==
    IF rule = None THEN Outcome(stripped, FALSE, "NoRule")
    ELSE WithBasket(d, stripped, rule, _compute_basket_qty(d.items, rule.eligible_items))

apply_promotions(d, rs) ==
    IF d.docstatus # 0 THEN Outcome(d.items, FALSE, "Skipped")
    ELSE IF d.is_return THEN Outcome(d.items, FALSE, "Skipped")
    ELSE IF d.items = <<>> THEN Outcome(d.items, FALSE, "Skipped")
    ELSE WithRule(d, _remove_existing_promo_rows(d.items), _get_matching_rule(d, rs))

\* ------------------------------------------------------------------ inputs
Row(code, sq, q, wh, um, cf, dd, desc) ==
    [item_code |-> code, item_name |-> code, delivery_date |-> dd,
     stock_qty |-> sq, qty |-> q, rate |-> 1, price_list_rate |-> 1, amount |-> q,
     warehouse |-> wh, uom |-> um, conversion_factor |-> cf, description |-> desc]

\* The rows a user enters: plain lines, a line with a padded item code, a line
\* whose stock quantity differs from its quantity, a zero-quantity line, and
\* lines whose description is or resembles the marker of a free line.
UserRows ==
    { Row(<<"X">>, 0, 1, "W1", "Nos", 1, "", <<>>),
      Row(<<"X", " ">>, 2, 1, "W2", "Box", 2, "D1", <<>>),
      Row(<<"Y">>, 0, 2, "W2", "Box", 1, "D1", <<"note">>),
      Row(<<"Y">>, 0, 0, "W1", "Nos", 1, "", <<>>),
      Row(<<"X">>, 0, 3, "W1", "Nos", 1, "", FreeItemDescription),
      Row(<<"Y">>, 0, 1, "W1", "Nos", 1, "", <<"FREE ITEM">>) }

Slab(lo, hi, f) == [min_qty |-> lo, max_qty |-> hi, free_qty |-> f]

RuleRow(n, en, cg, co, pr, pol, fx, el, ss) ==
    [name |-> n, enabled |-> en, customer_group |-> cg, company |-> co, priority |-> pr,
     free_item_policy |-> pol, fixed_free_item_code |-> fx, eligible_items |-> el,
     slabs |-> ss]

\* The Basket Promo Rule tables the engine is run against.
RuleTables ==
    { <<>>,
      << RuleRow(1, TRUE, <<"P">>, <<>>, 1, "", <<>>, {<<"X">>, <<"Y">>},
                 <<Slab(2, 4, 1), Slab(0, 2, 0), Slab(4, 9, 2)>>) >>,
      << RuleRow(1, TRUE, <<"C">>, <<"A">>, 2, "fixed_item", <<" ", "Z">>, {<<"Y">>},
                 <<Slab(0, 9, 1)>>),
         RuleRow(2, TRUE, <<"P">>, <<>>, 1, "highest_qty", <<>>, {<<"X">>, <<"Y">>},
                 <<Slab(1, 3, 1), Slab(3, 0, 2)>>) >>,
      << RuleRow(1, TRUE, <<"C">>, <<>>, 1, "fixed_item", <<" ">>, {<<"X">>},
                 <<Slab(1, 9, 1)>>) >>,
      << RuleRow(1, TRUE, <<"R">>, <<>>, 0, "fixed_item", <<"X">>, {<<"X">>, <<"Z">>},
                 <<Slab(0, 9, 2)>>) >> }

Header(cg, co, ret) ==
    [docstatus |-> 0, is_return |-> ret, customer_group |-> cg, company |-> co,
     delivery_date |-> "D0", items |-> <<>>]

Headers ==
    { Header(<<"C">>, <<"A">>, FALSE),
      Header(<<"C", " ">>, <<>>, FALSE),
      Header(<<"C">>, <<"B">>, TRUE),
      Header(<<" ">>, <<"A">>, FALSE),
      Header(<<"G">>, <<"A">>, FALSE) }

NoResult == [recalc |-> FALSE, path |-> ""]

\* ------------------------------------------------------- the document engine
Idle ==
    /\ basket_qty = 0 /\ slabs = <<>> /\ free_qty = 0
    /\ chosen = None
    /\ eligible_items = {} /\ aggregate = EmptyAggregate

Init ==
    /\ doc \in Headers
    /\ rules \in RuleTables
    /\ calls = "none" /\ pre = <<>> /\ result = NoResult
    /\ Idle

Edited(d) ==
    /\ doc' = d
    /\ calls' = "none" /\ pre' = <<>> /\ result' = NoResult
    /\ UNCHANGED <<rules, basket_qty, slabs, free_qty, chosen, eligible_items, aggregate>>

AddLine ==
    /\ doc.docstatus = 0
    /\ Len(doc.items) < MaxLines
    /\ \E r \in UserRows : Edited([doc EXCEPT !.items = Append(@, r)])

RemoveLine ==
    /\ doc.docstatus = 0
    /\ \E i \in 1..Len(doc.items) :
          Edited([doc EXCEPT !.items = SubSeq(@, 1, i - 1) \o SubSeq(@, i + 1, Len(@))])

Submit ==
    /\ doc.docstatus = 0
    /\ doc.items # <<>>
    /\ Edited([doc EXCEPT !.docstatus = 1])

\* the hook: one call of apply_promotions on the document
Evaluate ==
    LET r == apply_promotions(doc, rules)
    IN  /\ doc' = [doc EXCEPT !.items = r.items]
        /\ pre' = doc.items
        /\ result' = [recalc |-> r.recalc, path |-> r.path]
        /\ calls' = IF calls = "none" THEN "first" ELSE "repeat"
        /\ UNCHANGED <<rules, basket_qty, slabs, free_qty, chosen, eligible_items, aggregate>>

Next == AddLine \/ RemoveLine \/ Submit \/ Evaluate

Spec == Init /\ [][Next]_vars

\* ------------------------------------------- the slab evaluator on its own
SlabRows == {Slab(lo, hi, f) : lo \in 0..MaxQty, hi \in 0..MaxQty, f \in 0..2}

\* slab lists as the rule lookup delivers them: ascending by min_qty
SortedSlabLists ==
    {s \in SeqsUpTo(SlabRows, MaxSlabs) :
        \A i \in 1..Len(s) : \A j \in i..Len(s) : s[i].min_qty <= s[j].min_qty}

InitSlab ==
    /\ doc = Header(<<>>, <<>>, FALSE) /\ rules = <<>>
    /\ calls = "none" /\ pre = <<>> /\ result = NoResult
    /\ basket_qty \in 0..(MaxQty + 1)
    /\ slabs \in SortedSlabLists
    /\ free_qty = 0
    /\ chosen = None
    /\ eligible_items = {} /\ aggregate = EmptyAggregate

EvalSlab ==
    /\ calls = "none"
    /\ free_qty' = _get_free_qty_for_slab(basket_qty, slabs)
    /\ calls' = "first"
    /\ UNCHANGED <<doc, rules, pre, result, basket_qty, slabs, chosen, eligible_items,
                   aggregate>>

SpecSlab == InitSlab /\ [][EvalSlab]_vars

\* --------------------------------------------- the rule resolver on its own
Priorities == {1, 2}

RuleShapes ==
    {RuleRow(0, TRUE, cg, co, pr, "", <<>>, {}, <<>>) :
        cg \in {<<"C">>, <<"P">>, <<"O">>},
        co \in {<<>>, <<"A">>, <<"B">>}, pr \in Priorities}
    \cup {RuleRow(0, FALSE, <<"C">>, co, 2, "", <<>>, {}, <<>>) : co \in {<<>>, <<"A">>}}

\* every table of at most MaxRules rules; a rule's name is its place in the
\* table, the most recently modified rule first
AllRuleTables ==
    UNION {{[i \in 1..k |-> [f[i] EXCEPT !.name = i]] : f \in [1..k -> RuleShapes]} :
              k \in 0..MaxRules}

InitRule ==
    /\ doc \in {Header(cg, co, FALSE) :
                   cg \in {<<"C">>, <<" ", "C">>, <<"P">>, <<"G">>, <<>>},
                   co \in {<<>>, <<"A">>}}
    /\ rules \in AllRuleTables
    /\ calls = "none" /\ pre = <<>> /\ result = NoResult
    /\ Idle

Resolve ==
    /\ calls = "none"
    /\ chosen' = ChosenRule(doc, rules)
    /\ calls' = "first"
    /\ UNCHANGED <<doc, rules, pre, result, basket_qty, slabs, free_qty, eligible_items,
                   aggregate>>

SpecRule == InitRule /\ [][Resolve]_vars

\* ------------------------------------------- the basket aggregator on its own
BasketRows ==
    {Row(code, sq, q, "W1", "Nos", 1, "", <<>>) :
        code \in {<<"X">>, <<"X", " ">>, <<"Y">>}, sq \in {0, 1, 3}, q \in {1, 2}}
    \cup {Row(<<"X">>, 0, 3, "W1", "Nos", 1, "", FreeItemDescription)}

InitBasket ==
    /\ doc \in {[Header(<<"C">>, <<>>, FALSE) EXCEPT !.items = s] :
                   s \in SeqsUpTo(BasketRows, MaxLines)}
    /\ rules = <<>>
    /\ calls = "none" /\ pre = <<>> /\ result = NoResult
    /\ basket_qty = 0 /\ slabs = <<>> /\ free_qty = 0
    /\ chosen = None
    /\ eligible_items \in {{<<"X">>}, {<<"X">>, <<"Y">>}}
    /\ aggregate = EmptyAggregate

Aggregate ==
    /\ calls = "none"
    /\ aggregate' = _compute_basket_qty(doc.items, eligible_items)
    /\ calls' = "first"
    /\ UNCHANGED <<doc, rules, pre, result, basket_qty, slabs, free_qty, chosen,
                   eligible_items>>

SpecBasket == InitBasket /\ [][Aggregate]_vars

\* ================================================================== claims
\* Definitions the claims are stated with.  They are written from the claims'
\* wording, not from the operators above.
NonPromoLines(items) == SelectSeq(items, LAMBDA r : ~_is_promo_row(r))

NumPromo(items) == Cardinality({i \in 1..Len(items) : _is_promo_row(items[i])})

Called == calls # "none"

\* the document as the last call found it
PreDoc == [doc EXCEPT !.items = pre]

Draft == doc.docstatus = 0 /\ ~doc.is_return

LastLine == doc.items[Len(doc.items)]

\* the lines the basket counts: not promotional, eligible, counted quantity > 0
CountedAt(items, eligible, i) ==
    /\ ~_is_promo_row(items[i])
    /\ Strip(items[i].item_code) \in eligible
    /\ CountedQty(items[i]) > 0

RECURSIVE RefItemQty(_, _, _, _)
RefItemQty(items, eligible, code, n) ==
    IF n = 0 THEN 0
    ELSE RefItemQty(items, eligible, code, n - 1)
         + (IF CountedAt(items, eligible, n) /\ Strip(items[n].item_code) = code
            THEN CountedQty(items[n]) ELSE 0)

RECURSIVE RefTotalQty(_, _, _)
RefTotalQty(items, eligible, n) ==
    IF n = 0 THEN 0
    ELSE RefTotalQty(items, eligible, n - 1)
         + (IF CountedAt(items, eligible, n) THEN CountedQty(items[n]) ELSE 0)

RefCountedCodes(items, eligible) ==
    {Strip(items[i].item_code) : i \in {j \in 1..Len(items) : CountedAt(items, eligible, j)}}

RefFirstAt(items, eligible, code) ==
    CHOOSE i \in 1..Len(items) :
        /\ CountedAt(items, eligible, i) /\ Strip(items[i].item_code) = code
        /\ \A j \in 1..(i - 1) :
              ~(CountedAt(items, eligible, j) /\ Strip(items[j].item_code) = code)

\* the item with the largest accumulated quantity, the first counted one on a tie
RefHighestQtyItem(items, eligible) ==
    CHOOSE c \in RefCountedCodes(items, eligible) :
        \A e \in RefCountedCodes(items, eligible) :
            \/ RefItemQty(items, eligible, e, Len(items)) < RefItemQty(items, eligible, c, Len(items))
            \/ /\ RefItemQty(items, eligible, e, Len(items)) = RefItemQty(items, eligible, c, Len(items))
               /\ RefFirstAt(items, eligible, c) <= RefFirstAt(items, eligible, e)

\* the first non-promotional line whose item code is eligible
EligibleLineAt(items, eligible, i) ==
    ~_is_promo_row(items[i]) /\ Strip(items[i].item_code) \in eligible

RefFirstEligibleLine(items, eligible) ==
    items[CHOOSE i \in 1..Len(items) :
              /\ EligibleLineAt(items, eligible, i)
              /\ \A j \in 1..(i - 1) : ~EligibleLineAt(items, eligible, j)]

AttributesCopied(free, template) ==
    /\ free.warehouse = template.warehouse
    /\ free.uom = template.uom
    /\ free.conversion_factor = template.conversion_factor

\* ---- C1
\* C1: a second call of evaluate right after a first one, with nothing changed in
\* between, leaves the line set exactly as the first call left it.
C1_Idempotent == calls = "repeat" => doc.items = pre

C1_Witness ==
    /\ calls = "repeat" /\ result.path = "AddFreeLine"
    /\ NumPromo(pre) = 1 /\ Len(pre) >= 3

\* ---- C2
\* C2 as claimed: after every call of evaluate, whatever the document and however
\* many promotional lines it held, the line set holds at most one promotional line.
C2_AtMostOnePromoAfterEveryCall == Called => NumPromo(doc.items) <= 1

\* C2 amended: after every call of evaluate on a draft document that is not a
\* return, the line set holds at most one promotional line.
C2_AtMostOnePromoOnDraft == (Called /\ Draft) => NumPromo(doc.items) <= 1

C2_Witness == Called /\ Draft /\ NumPromo(pre) >= 2 /\ NumPromo(doc.items) = 1

\* ---- C3
\* the slab the claim describes: the first one with min_qty <= q and
\* (max_qty = 0, unbounded above, or q < max_qty)
RefSlabMatches(q, s) == s.min_qty <= q /\ (s.max_qty = 0 \/ q < s.max_qty)

RefFreeQty(q, ss) ==
    IF \E i \in 1..Len(ss) : RefSlabMatches(q, ss[i])
    THEN ss[CHOOSE i \in 1..Len(ss) :
                /\ RefSlabMatches(q, ss[i])
                /\ \A j \in 1..(i - 1) : ~RefSlabMatches(q, ss[j])].free_qty
    ELSE 0

\* C3: for every quantity and every slab list sorted by min_qty, the slab
\* evaluator returns the free quantity of the first slab with min_qty <= q and
\* (max_qty zero, meaning unbounded, or q < max_qty), and 0 when there is none.
C3_SlabMatchesReference == Called => free_qty = RefFreeQty(basket_qty, slabs)

\* ---- C4
RefAncestors(d) == _get_customer_group_ancestors_including_self(Strip(d.customer_group))

RefInChain(d, r) ==
    /\ Strip(d.customer_group) # <<>>
    /\ \E i \in 1..Len(RefAncestors(d)) : RefAncestors(d)[i] = r.customer_group

RefCompanyMatched(d, rs) ==
    {rs[i] : i \in {j \in 1..Len(rs) :
        /\ rs[j].enabled /\ RefInChain(d, rs[j])
        /\ rs[j].company # <<>> /\ rs[j].company = Strip(d.company)}}

RefWildcard(d, rs) ==
    {rs[i] : i \in {j \in 1..Len(rs) :
        rs[j].enabled /\ RefInChain(d, rs[j]) /\ rs[j].company = <<>>}}

\* C4: whenever an enabled rule in the ancestor chain has the document's company,
\* the resolver returns a company-matched rule, whatever the priority or
\* specificity of the wildcard rules.
C4_CompanyMatchedPreferred ==
    (Called /\ RefCompanyMatched(doc, rules) # {}) => chosen \in RefCompanyMatched(doc, rules)

\* ---- C5
RefCandidates(d, rs) == RefCompanyMatched(d, rs) \cup RefWildcard(d, rs)

RefSpecificity(d, r) ==
    CHOOSE i \in 1..Len(RefAncestors(d)) :
        /\ RefAncestors(d)[i] = r.customer_group
        /\ \A j \in 1..(i - 1) : RefAncestors(d)[j] # r.customer_group

\* C5: the rule the resolver returns is a candidate that passed the company
\* filter, it has the largest priority among the candidates, and among the
\* candidates of that priority the smallest index in the self-first ancestor chain;
\* it returns none only when there is no candidate.
PriorityThenSpecificityAmong(d, cands, c) ==
    IF cands = {} THEN c = None
    ELSE /\ c \in cands
         /\ \A o \in cands :
               \/ o.priority < c.priority
               \/ /\ o.priority = c.priority
                  /\ RefSpecificity(d, c) <= RefSpecificity(d, o)

C5_PriorityThenSpecificity ==
    Called => PriorityThenSpecificityAmong(doc, RefCandidates(doc, rules), chosen)

\* a higher-priority rule on the parent group beat a lower-priority rule on the
\* exact group
C5_Witness ==
    /\ Called /\ chosen # None
    /\ chosen.customer_group = <<"P">> /\ RefSpecificity(doc, chosen) = 2
    /\ \E c \in RefCandidates(doc, rules) :
          c.customer_group = <<"C">> /\ c.priority < chosen.priority

\* ---- C9
RefMaxCountedAt(items, eligible, code) ==
    CHOOSE i \in 1..Len(items) :
        /\ CountedAt(items, eligible, i) /\ Strip(items[i].item_code) = code
        /\ \A j \in 1..Len(items) :
              (CountedAt(items, eligible, j) /\ Strip(items[j].item_code) = code)
              => /\ CountedQty(items[j]) <= CountedQty(items[i])
                 /\ (j < i => CountedQty(items[j]) < CountedQty(items[i]))

\* C9: after the aggregation, for every item code with a counted line,
\* best_row_by_item holds the first line in document order whose counted quantity
\* is the largest among the counted lines of that item.
C9_BestLineIsLargest ==
    Called =>
        \A code \in RefCountedCodes(doc.items, eligible_items) :
            /\ HasKey(aggregate.best_row_by_item, code)
            /\ Get(aggregate.best_row_by_item, code)
                   = doc.items[RefMaxCountedAt(doc.items, eligible_items, code)]

\* ---- C6
\* the rule the last call resolved, and what the claim's conditions say of it
PreRule == _get_matching_rule(PreDoc, rules)

FreeQtyUnder(rule) ==
    _get_free_qty_for_slab(RefTotalQty(pre, rule.eligible_items, Len(pre)), rule.slabs)

FixedItemUnder(rule) == rule.free_item_policy = "fixed_item"

HasEligibleLineUnder(rule) ==
    \E i \in 1..Len(pre) : EligibleLineAt(pre, rule.eligible_items, i)

\* no rule matches, or the slab evaluator yields no free quantity, or the fixed
\* item code is empty, or there is no line to take as a template
NoPromotionUnder(rule) ==
    \/ rule = None
    \/ FreeQtyUnder(rule) <= 0
    \/ (FixedItemUnder(rule) /\ Strip(rule.fixed_free_item_code) = <<>>)
    \/ ~HasEligibleLineUnder(rule)

AddedFreeLine == result.path = "AddFreeLine"

RemovedPromoLine == result.path \notin {"", "Skipped"} /\ NumPromo(pre) > 0

FixedItemAbsentUnder(rule) ==
    \A i \in 1..Len(pre) :
        _is_promo_row(pre[i]) \/ Strip(pre[i].item_code) # Strip(rule.fixed_free_item_code)

\* what the claim says of the free line that was added under `rule`
FreeLineFollows(rule, free) ==
    /\ free.qty = FreeQtyUnder(rule)
    /\ FixedItemUnder(rule) =>
          /\ free.item_code = Strip(rule.fixed_free_item_code)
          /\ FixedItemAbsentUnder(rule) =>
                AttributesCopied(free, RefFirstEligibleLine(pre, rule.eligible_items))
    /\ ~FixedItemUnder(rule) =>
          free.item_code = RefHighestQtyItem(pre, rule.eligible_items)

\* when the claim says a fixed-item free line is to be added
FixedItemDue(rule) ==
    /\ rule # None /\ FixedItemUnder(rule)
    /\ Strip(rule.fixed_free_item_code) # <<>>
    /\ FreeQtyUnder(rule) > 0 /\ HasEligibleLineUnder(rule)

\* C8: whenever evaluate adds a free line, its quantity is the slab evaluator's
\* result for the total eligible quantity; under fixed_item its item code is the
\* trimmed fixed code, and when no basket line carries that item its warehouse,
\* unit and conversion factor are those of the first eligible non-promotional
\* line; under highest_qty its item code is the item with the largest accumulated
\* quantity, the first in document order on a tie.  Under fixed_item the line is
\* added whenever the code is not empty, the slab gives a free quantity and some
\* eligible non-promotional line exists (second conjunct, by contraposition).
C8_FreeItemFollowsPolicy ==
    /\ (Called /\ AddedFreeLine) => FreeLineFollows(PreRule, LastLine)
    /\ (Called /\ Draft /\ pre # <<>> /\ ~AddedFreeLine) => ~FixedItemDue(PreRule)

\* the fixed item Z is on no basket line and its free line was added
C8_Witness ==
    /\ Called /\ AddedFreeLine /\ FixedItemUnder(PreRule) /\ FixedItemAbsentUnder(PreRule)
    /\ LastLine.item_code = <<"Z">>
    /\ Len(NonPromoLines(pre)) >= 2

\* ---- C10
\* C10: on every path through evaluate the non-promotional lines of the output
\* are those of the input, in the same order and unaltered; the output is the
\* input, or the input without its promotional lines, or that followed by one
\* promotional line.
C10_NonPromoLinesUntouched ==
    Called =>
        /\ NonPromoLines(doc.items) = NonPromoLines(pre)
        /\ \/ doc.items = pre
           \/ doc.items = NonPromoLines(pre)
           \/ /\ doc.items # <<>>
              /\ _is_promo_row(LastLine)
              /\ SubSeq(doc.items, 1, Len(doc.items) - 1) = NonPromoLines(pre)

\* a stale promotional line between two basket lines was replaced by a new one
C10_Witness ==
    /\ Called /\ AddedFreeLine
    /\ Len(pre) >= 3 /\ _is_promo_row(pre[2]) /\ ~_is_promo_row(pre[3])
    /\ doc.items # pre

====
